---- MODULE Spec2Model ----
(***************************************************************************)
(* streamMulti (src/src/Message.tsx, lines 175-394): one generation's      *)
(* event stream is split into text and tool-call segments while tool       *)
(* renderers run as concurrent async tasks.                                *)
(*                                                                         *)
(* One action is one synchronous run of JavaScript between two awaits:     *)
(*   ReadEvent    reader.read() delivers an event and the switch runs      *)
(*   ReadDone     reader.read() delivers done: ui.done(), break            *)
(*   ReadFail     reader.read() rejects                                    *)
(*   TaskStep     an awaited promise / async-generator step of one render  *)
(*                task settles and handleRender continues                  *)
(*   AwaitFinished  the consumer's `await finished` returns                *)
(*                                                                         *)
(* Strings are sequences of characters, so += is \o.  `log` is the history *)
(* of the calls issued by the consumer (ReadEvent, ReadDone, ReadFail), in *)
(* program order; what a resumed render task issues is recorded on its own *)
(* sink, toolUis[k].calls.                                                 *)
(***************************************************************************)
EXTENDS Naturals, Sequences, FiniteSets

VARIABLES
    pc,              \* position of the consumer IIFE (lines 343-391)
    consumed,        \* events reader.read() has delivered so far, in order
    segments,        \* const segments: Segment[]            (line 197)
    ui,              \* const ui = createStreamableUI(initial) (line 183)
    initialRemoved,  \* let initialRemoved = false           (line 186)
    toolUis,         \* every toolUi created by streamToolSegment (line 234)
    tasks,           \* one entry per resolvable created by handleRender
    finished,        \* let finished: Promise<void> | undefined (line 273)
    onSegmentCalls,  \* invocations of params.onSegment: the argument as seen, whether it threw
    log              \* the calls the consumer's own synchronous runs issued, in order

vars == <<pc, consumed, segments, ui, initialRemoved, toolUis, tasks, finished,
          onSegmentCalls, log>>

----------------------------------------------------------------------------
(* Bounds of the model *)

\* The size of one generation: the events the stream delivers, plus one for
\* each tool-call among them, plus one for each intermediate value a
\* generator renderer yields.
MaxWork == 5

----------------------------------------------------------------------------
(* Inputs *)

Deltas == {<<>>, <<"a">>, <<"b">>}

\* params.tools: each tool's generate, by what calling it returns (lines 240-244, 293-338).
\* "nogen" is a tool without a generate function; "missing" is no key of tools.
Tools == [plain |-> "plain", promise |-> "promise", agen |-> "asyncIterator",
          gen |-> "iterator", nogen |-> "undefined"]

ToolNames == DOMAIN Tools \cup {"missing"}

NoError == "none"

Event(type, textDelta, toolName, error) ==
    [type |-> type, textDelta |-> textDelta, toolName |-> toolName,
     toolCallId |-> 0, args |-> "", error |-> error]

EventSet ==
    {Event("text-delta", d, "", NoError) : d \in Deltas}
    \cup {Event("tool-call", <<>>, n, NoError) : n \in ToolNames}
    \cup {Event("tool-call-delta", <<>>, "", NoError),
          Event("error", <<>>, "", "E"),
          Event("finish", <<>>, "", NoError)}

----------------------------------------------------------------------------
(* The program state threaded through one synchronous run.  `thrown` is    *)
(* the exception in flight: every operation below is skipped while one is  *)
(* propagating, which is how a throw unwinds to the nearest catch.         *)

Ok(st) == st.thrown = NoError

Throw(st, e) == [st EXCEPT !.thrown = e]

\* a log entry: the call, the object it is issued on, and the number of the
\* reader.read() whose handling issued it
Logged(st, op, id) ==
    [st EXCEPT !.log = Append(@, [op |-> op, id |-> id, step |-> st.step])]

Current ==
    [segments |-> segments, ui |-> ui, initialRemoved |-> initialRemoved,
     toolUis |-> toolUis, tasks |-> tasks, finished |-> finished,
     onSegmentCalls |-> onSegmentCalls, log |-> log, thrown |-> NoError,
     step |-> Len(consumed) + 1]

InitialNode == [kind |-> "initial", id |-> 0]

----------------------------------------------------------------------------
(* ai/rsc sinks.  A closed streamable throws on any further call           *)
(* ("cannot be updated or appended anymore", lines 141-147).  The log      *)
(* records a call when it is issued, whether or not the sink accepts it.   *)

\* createStreamableUI(initial), line 183
createStreamableUI(initial) ==
    [value |-> <<initial>>, closed |-> FALSE, status |-> "open", cause |-> NoError]

\* ui.update(value): replaces the current (last) node, lines 112-115
uiUpdate(st, node) ==
    IF ~Ok(st) THEN st
    ELSE LET s1 == Logged(st, "ui.update", node.id)
         IN IF st.ui.closed THEN Throw(s1, "ClosedError")
            ELSE [s1 EXCEPT !.ui.value = [@ EXCEPT ![Len(@)] = node]]

\* ui.append(value): adds a node after the old ones, lines 117-133
uiAppend(st, node) ==
    IF ~Ok(st) THEN st
    ELSE LET s1 == Logged(st, "ui.append", node.id)
         IN IF st.ui.closed THEN Throw(s1, "ClosedError")
            ELSE [s1 EXCEPT !.ui.value = Append(@, node)]

\* ui.done() with no argument: seals, value unchanged, lines 141-147
uiDone(st) ==
    IF ~Ok(st) THEN st
    ELSE LET s1 == Logged(st, "ui.done", 0)
         IN IF st.ui.closed THEN Throw(s1, "ClosedError")
            ELSE [s1 EXCEPT !.ui.closed = TRUE, !.ui.status = "done"]

\* ui.error(error), lines 135-139
uiError(st, e) ==
    IF ~Ok(st) THEN st
    ELSE LET s1 == Logged(st, "ui.error", 0)
         IN IF st.ui.closed THEN Throw(s1, "ClosedError")
            ELSE [s1 EXCEPT !.ui.closed = TRUE, !.ui.status = "error", !.ui.cause = e]

\* createStreamableValue(value.textDelta), line 221
createStreamableValue(initial) ==
    [initial |-> initial, appended |-> <<>>, closed |-> FALSE]

\* latestSegment.stream.append(value.textDelta), line 216
streamAppend(st, n, delta) ==
    IF ~Ok(st) THEN st
    ELSE LET s1 == Logged(st, "text.append", n)
         IN IF st.segments[n].stream.closed THEN Throw(s1, "ClosedError")
            ELSE [s1 EXCEPT !.segments[n].stream.appended = Append(@, delta)]

\* latestSegment.stream.done(), line 264
streamDone(st, n) ==
    IF ~Ok(st) THEN st
    ELSE LET s1 == Logged(st, "text.done", n)
         IN IF st.segments[n].stream.closed THEN Throw(s1, "ClosedError")
            ELSE [s1 EXCEPT !.segments[n].stream.closed = TRUE]

\* const toolUi = createStreamableUI(), line 234
createToolUi(st) ==
    IF ~Ok(st) THEN st
    ELSE Logged([st EXCEPT !.toolUis = Append(@, [calls |-> <<>>, closed |-> FALSE])],
                "tool.create", Len(st.toolUis) + 1)

\* res.update(value), lines 303, 314, 326, 335
toolUiUpdate(st, k, v) ==
    IF ~Ok(st) THEN st
    ELSE LET s1 == Logged(st, "tool.update", k)
         IN IF st.toolUis[k].closed THEN Throw(s1, "ClosedError")
            ELSE [s1 EXCEPT !.toolUis[k].calls = Append(@, [op |-> "update", value |-> v])]

\* res.done(value), lines 246, 301, 312, 324, 333
toolUiDone(st, k, v) ==
    IF ~Ok(st) THEN st
    ELSE LET s1 == Logged(st, "tool.done", k)
         IN IF st.toolUis[k].closed THEN Throw(s1, "ClosedError")
            ELSE [s1 EXCEPT !.toolUis[k].calls = Append(@, [op |-> "done", value |-> v]),
                            !.toolUis[k].closed = TRUE]

----------------------------------------------------------------------------
(* streamMulti's inner functions *)

\* appendUI that never sets initialRemoved
appendUI_AlwaysUpdate(st, component) ==
    IF ~Ok(st) THEN st ELSE uiUpdate(st, component)

\* appendUI that always appends, so the placeholder is never replaced
appendUI_KeepInitial(st, component) ==
    IF ~Ok(st) THEN st ELSE uiAppend([st EXCEPT !.initialRemoved = TRUE], component)

\* function appendUI(component), lines 188-195
appendUI(st, component) ==
    IF ~Ok(st) THEN st
    ELSE IF st.initialRemoved THEN uiAppend(st, component)
    ELSE uiUpdate([st EXCEPT !.initialRemoved = TRUE], component)

\* an observer whose exception is swallowed by the closing code
onSegment_Caught(st, n, throws) ==
    IF ~Ok(st) THEN st
    ELSE Logged([st EXCEPT !.onSegmentCalls =
                    Append(@, [index |-> n, segment |-> st.segments[n],
                               threw |-> throws])],
                "onSegment", n)

\* onSegment(latestSegment), line 268: the observer sees the segment as it is
\* at the call; `throws` is whether this invocation of the observer throws.
onSegment(st, n, throws) ==
    IF ~Ok(st) THEN st
    ELSE LET s1 == Logged([st EXCEPT !.onSegmentCalls =
                              Append(@, [index |-> n, segment |-> st.segments[n],
                                         threw |-> throws])],
                          "onSegment", n)
         IN IF throws THEN Throw(s1, "ObserverError") ELSE s1

\* function markLastSegmentDone(), lines 259-271 (params.onSegment supplied)
markLastSegmentDone(st, throws) ==
    IF ~Ok(st) THEN st
    ELSE LET n == Len(st.segments)
         IN IF n = 0 THEN st
            ELSE LET s1 == IF st.segments[n].type = "text" THEN streamDone(st, n) ELSE st
                 IN onSegment(s1, n, throws)

\* addSegment without the call of markLastSegmentDone
addSegment_NoClose(st, segment, throws) ==
    IF ~Ok(st) THEN st
    ELSE Logged([st EXCEPT !.segments = Append(@, segment)], "push", Len(st.segments) + 1)

\* function addSegment(segment), lines 199-205
addSegment(st, segment, throws) ==
    LET s1 == markLastSegmentDone(st, throws)
    IN IF ~Ok(s1) THEN s1
       ELSE Logged([s1 EXCEPT !.segments = Append(@, segment)],
                   "push", Len(s1.segments) + 1)

\* streamTextSegment with the delta put in front of the accumulated text
streamTextSegment_Prepend(st, value, throws) ==
    LET n == Len(st.segments)
    IN IF ~Ok(st) THEN st
       ELSE IF n > 0 /\ st.segments[n].type = "text"
       THEN streamAppend([st EXCEPT !.segments[n].text = value.textDelta \o @],
                         n, value.textDelta)
       ELSE LET textStream == createStreamableValue(value.textDelta)
                s1 == Logged(st, "text.create", n + 1)
                s2 == appendUI(s1, [kind |-> "text", id |-> n + 1])
            IN addSegment(s2, [type |-> "text", text |-> value.textDelta,
                               stream |-> textStream], throws)

\* function streamTextSegment(value), lines 211-230
streamTextSegment(st, value, throws) ==
    LET n == Len(st.segments)
    IN IF ~Ok(st) THEN st
       ELSE IF n > 0 /\ st.segments[n].type = "text"
       THEN streamAppend([st EXCEPT !.segments[n].text = @ \o value.textDelta],
                         n, value.textDelta)
       ELSE LET textStream == createStreamableValue(value.textDelta)
                s1 == Logged(st, "text.create", n + 1)
                s2 == appendUI(s1, [kind |-> "text", id |-> n + 1])
            IN addSegment(s2, [type |-> "text", text |-> value.textDelta,
                               stream |-> textStream], throws)

----------------------------------------------------------------------------
(* Render tasks *)

\* What one call of a renderer does before handleRender first suspends:
\* `yields` intermediate values, then it returns, or throws when `fails`.
Behaviours == [fails : BOOLEAN, yields : 0..MaxWork]

\* the behaviours that differ for the renderer an event invokes: a plain
\* renderer returns or throws, a sync generator also yields; promises and
\* async generators settle later, in TaskStep
BehavioursOf(e) ==
    IF e.type = "tool-call" /\ e.toolName \in DOMAIN Tools
    THEN CASE Tools[e.toolName] = "iterator" -> Behaviours
           [] Tools[e.toolName] = "plain" -> {b \in Behaviours : b.yields = 0}
           [] OTHER -> {b \in Behaviours : b.yields = 0 /\ ~b.fails}
    ELSE {b \in Behaviours : b.yields = 0 /\ ~b.fails}

RECURSIVE SumYielded(_)
SumYielded(ts) == IF ts = <<>> THEN 0 ELSE Head(ts).yielded + SumYielded(Tail(ts))

\* the size of the generation so far, and what handling event e adds to it
Work == Len(consumed) + Len(toolUis) + SumYielded(tasks)

WorkOf(e, beh) == 1 + (IF e.type = "tool-call" THEN 1 ELSE 0) + beh.yields

\* whether the observer throws matters only when the event can close a segment
ThrowsOf(e) ==
    IF e.type \in {"text-delta", "tool-call", "finish"} THEN BOOLEAN ELSE {FALSE}

Yielded(k) == [kind |-> "yield", n |-> k]
Returned == [kind |-> "return", n |-> 0]
NotFound == [kind |-> "notfound", n |-> 0]     \* <div>Tool not found</div>, line 246

\* const resolvable = createResolvablePromise<void>(), lines 285, 397-408
createResolvablePromise(res, kind) ==
    [res |-> res, kind |-> kind, status |-> "running", resolved |-> FALSE, yielded |-> 0]

\* an emit that treats the terminal value like an intermediate one
renderEmit_NeverDone(st, res, lastCall, done, v) ==
    toolUiUpdate(st, res, v)

\* if (lastCall && done) res.done(value) else res.update(value)
\* (lines 311-315, 323-327; lines 300-304 and 332-336 with done = true)
renderEmit(st, res, lastCall, done, v) ==
    IF lastCall /\ done THEN toolUiDone(st, res, v) ELSE toolUiUpdate(st, res, v)

\* a failure path that still resolves the task's completion signal
rejected_Resolving(st, t) ==
    Logged([st EXCEPT !.thrown = NoError, !.tasks[t].status = "errored",
                      !.tasks[t].resolved = TRUE], "reject", t)

\* handleRender is an async function: a throw inside it rejects the promise it
\* returned, which nobody awaits or catches (line 244); resolvable stays pending.
rejected(st, t) ==
    Logged([st EXCEPT !.thrown = NoError, !.tasks[t].status = "errored"], "reject", t)

\* resolvable.resolve(void 0), lines 306, 318, 330, 337
resolve(st, t) ==
    IF ~Ok(st) THEN rejected(st, t)
    ELSE Logged([st EXCEPT !.tasks[t].status = "done", !.tasks[t].resolved = TRUE],
                "resolve", t)

\* the while (true) loop over a sync generator, lines 320-330; k values yielded so far
RECURSIVE iterateSync(_, _, _, _, _)
iterateSync(st, t, lastCall, beh, k) ==
    IF ~Ok(st) THEN rejected(st, t)
    ELSE IF k < beh.yields
    THEN iterateSync(renderEmit([st EXCEPT !.tasks[t].yielded = k + 1],
                                st.tasks[t].res, lastCall, FALSE, Yielded(k + 1)),
                     t, lastCall, beh, k + 1)
    ELSE IF beh.fails THEN rejected(st, t)
    ELSE resolve(renderEmit(st, st.tasks[t].res, lastCall, TRUE, Returned), t)

\* handleRender that does not call the renderer while an earlier task is unsettled
handleRender_Serial(st, renderer, res, lastCall, beh) ==
    IF ~Ok(st) THEN st
    ELSE IF renderer = "undefined" THEN st
    ELSE IF \E u \in 1..Len(st.tasks) : st.tasks[u].status = "running" THEN st
    ELSE LET t == Len(st.tasks) + 1
             s1 == [st EXCEPT !.tasks = Append(@, createResolvablePromise(res, renderer)),
                              !.finished = Append(@, t)]
             s2 == Logged(s1, "render", res)
         IN CASE renderer = "promise" -> s2
              [] renderer = "asyncIterator" -> s2
              [] renderer = "iterator" -> iterateSync(s2, t, lastCall, beh, 0)
              [] OTHER -> IF beh.fails THEN rejected(s2, t)
                          ELSE resolve(renderEmit(s2, res, lastCall, TRUE, Returned), t)

\* async function handleRender(args, renderer, res, lastCall), lines 277-339,
\* up to its first await
handleRender(st, renderer, res, lastCall, beh) ==
    IF ~Ok(st) THEN st
    ELSE IF renderer = "undefined" THEN st
    ELSE LET t == Len(st.tasks) + 1
             s1 == [st EXCEPT !.tasks = Append(@, createResolvablePromise(res, renderer)),
                              !.finished = Append(@, t)]
             s2 == Logged(s1, "render", res)
         IN CASE renderer = "promise" -> s2
              [] renderer = "asyncIterator" -> s2
              [] renderer = "iterator" -> iterateSync(s2, t, lastCall, beh, 0)
              [] OTHER -> IF beh.fails THEN rejected(s2, t)
                          ELSE resolve(renderEmit(s2, res, lastCall, TRUE, Returned), t)

\* handleRender after an await: the promise (line 298) or the it.next() (line 310)
\* of task t settled with `outcome`
resumeRender(st, t, lastCall, outcome) ==
    LET task == st.tasks[t]
    IN CASE outcome = "reject" -> rejected(st, t)
         [] outcome = "yield" ->
              LET s1 == renderEmit([st EXCEPT !.tasks[t].yielded = @ + 1], task.res,
                                   lastCall, FALSE, Yielded(task.yielded + 1))
              IN IF Ok(s1) THEN s1 ELSE rejected(s1, t)
         [] OTHER -> resolve(renderEmit(st, task.res, lastCall, TRUE, Returned), t)

\* function streamToolSegment(value), lines 233-257
streamToolSegment(st, value, beh, throws) ==
    LET k == Len(st.toolUis) + 1
        s1 == createToolUi(st)
        s2 == appendUI(s1, [kind |-> "tool", id |-> k])
        s3 == IF value.toolName \in DOMAIN Tools
              THEN handleRender(s2, Tools[value.toolName], k, TRUE, beh)
              ELSE toolUiDone(s2, k, NotFound)
    IN addSegment(s3, [type |-> "tool-call",
                       toolCall |-> [toolCallId |-> value.toolCallId,
                                     toolName |-> value.toolName,
                                     args |-> value.args]], throws)

\* the promise `finished` (lines 287-291) is settled once every resolvable
\* chained into it has been resolved
finishedSettled ==
    \A i \in 1..Len(finished) : tasks[finished[i]].resolved

----------------------------------------------------------------------------
(* The consumer, lines 343-391 *)

\* dispatch with the error case falling through like an unknown part type
dispatch_ErrorIgnored(st, value, beh, throws) ==
    CASE value.type = "text-delta" -> streamTextSegment(st, value, throws)
      [] value.type = "tool-call" -> streamToolSegment(st, value, beh, throws)
      [] value.type = "finish" -> markLastSegmentDone(st, throws)
      [] OTHER -> st

\* dispatch whose finish case closes nothing
dispatch_FinishIgnored(st, value, beh, throws) ==
    CASE value.type = "text-delta" -> streamTextSegment(st, value, throws)
      [] value.type = "tool-call" -> streamToolSegment(st, value, beh, throws)
      [] value.type = "error" -> Throw(st, value.error)
      [] OTHER -> st

\* switch (value.type), lines 356-381
dispatch(st, value, beh, throws) ==
    CASE value.type = "text-delta" -> streamTextSegment(st, value, throws)
      [] value.type = "tool-call" -> streamToolSegment(st, value, beh, throws)
      [] value.type = "error" -> Throw(st, value.error)
      [] value.type = "finish" -> markLastSegmentDone(st, throws)
      [] OTHER -> st

\* a catch block that swallows the error without sealing the display sink
catch_Swallow(st) ==
    IF Ok(st) THEN st ELSE [st EXCEPT !.thrown = NoError]

\* catch (error) { ui.error(error) }, lines 388-390
catch(st) ==
    IF Ok(st) THEN st ELSE uiError([st EXCEPT !.thrown = NoError], st.thrown)

CommitState(st) ==
    /\ segments' = st.segments
    /\ ui' = st.ui
    /\ initialRemoved' = st.initialRemoved
    /\ toolUis' = st.toolUis
    /\ tasks' = st.tasks
    /\ finished' = st.finished
    /\ onSegmentCalls' = st.onSegmentCalls

Commit(st) == CommitState(st) /\ log' = st.log

Init ==
    /\ pc = "reading"
    /\ consumed = <<>>
    /\ segments = <<>>
    /\ ui = createStreamableUI(InitialNode)
    /\ initialRemoved = FALSE
    /\ toolUis = <<>>
    /\ tasks = <<>>
    /\ finished = <<>>
    /\ onSegmentCalls = <<>>
    /\ log = <<>>

\* reader.read() delivers an event, lines 350, 356-381
\* one turn of the while loop for event e, lines 350-381
ReadStep(e, beh, throws) ==
    /\ Work + WorkOf(e, beh) <= MaxWork
    /\ LET value == [e EXCEPT !.toolCallId = Len(consumed) + 1]
           s1 == dispatch(Logged(Current, "read", Len(consumed) + 1), value, beh, throws)
       IN /\ consumed' = Append(consumed, value)
          /\ pc' = IF Ok(s1) THEN "reading" ELSE "caught"
          /\ Commit(catch(s1))

ReadEvent ==
    /\ pc = "reading"
    /\ \E e \in EventSet : \E beh \in BehavioursOf(e), throws \in ThrowsOf(e) :
         ReadStep(e, beh, throws)

\* reader.read() delivers done: ui.done(); break; then `if (finished) await finished`,
\* lines 351-354, 385-387
ReadDone ==
    /\ pc = "reading"
    /\ LET s1 == uiDone(Current)
       IN /\ pc' = IF ~Ok(s1) THEN "caught"
                   ELSE IF Len(finished) > 0 THEN "awaiting" ELSE "returned"
          /\ Commit(catch(s1))
    /\ UNCHANGED consumed

\* reader.read() rejects: the catch of lines 388-390
ReadFail ==
    /\ pc = "reading"
    /\ pc' = "caught"
    /\ Commit(catch(Throw(Current, "ReadError")))
    /\ UNCHANGED consumed

\* await finished returns, lines 385-387
AwaitFinished ==
    /\ pc = "awaiting"
    /\ finishedSettled
    /\ pc' = "returned"
    /\ UNCHANGED <<consumed, segments, ui, initialRemoved, toolUis, tasks, finished,
                   onSegmentCalls, log>>

\* the awaited promise or it.next() of a running render task settles
ResumeStep(t, outcome) ==
    /\ tasks[t].status = "running"
    /\ outcome = "yield" => tasks[t].kind = "asyncIterator" /\ Work < MaxWork
    /\ CommitState(resumeRender(Current, t, TRUE, outcome))
    /\ UNCHANGED <<pc, consumed, log>>

TaskStep ==
    \E t \in 1..Len(tasks) : \E outcome \in {"fulfil", "yield", "reject"} :
        ResumeStep(t, outcome)

Next == ReadEvent \/ ReadDone \/ ReadFail \/ AwaitFinished \/ TaskStep

Spec == Init /\ [][Next]_vars

----------------------------------------------------------------------------
(* Runs in which nothing fails, under fair scheduling: no error event, no   *)
(* read failure, every renderer returns (a promise resolves, a generator    *)
(* ends after finitely many values), the observer returns normally, and     *)
(* the stream ends only after a finish event.                               *)

FairReadEvent ==
    /\ pc = "reading"
    /\ \E e \in EventSet : \E beh \in BehavioursOf(e) :
         /\ e.type # "error"
         /\ ~beh.fails
         /\ ReadStep(e, beh, FALSE)

FairReadDone ==
    /\ consumed # <<>>
    /\ consumed[Len(consumed)].type = "finish"
    /\ ReadDone

FairTaskStep(t) ==
    /\ t <= Len(tasks)
    /\ \E outcome \in {"fulfil", "yield"} : ResumeStep(t, outcome)

FairNext ==
    \/ FairReadEvent
    \/ FairReadDone
    \/ AwaitFinished
    \/ \E t \in 1..MaxWork : FairTaskStep(t)

\* every continuation that is ready to run is run: the microtask and task
\* queues of the JavaScript runtime are served in turn
FairSpec ==
    /\ Init
    /\ [][FairNext]_vars
    /\ WF_vars(FairReadDone)
    /\ WF_vars(AwaitFinished)
    /\ \A t \in 1..MaxWork : WF_vars(FairTaskStep(t))

----------------------------------------------------------------------------
(* Reading the histories *)

\* positions of the log at which the consumer issued `op` on object `id`
LogPositions(op, id) == {p \in 1..Len(log) : log[p].op = op /\ log[p].id = id}

\* the index of the event whose processing issued log entry p
StepOf(p) == log[p].step

\* the segments onSegment was invoked with, in invocation order
Notified == [c \in 1..Len(onSegmentCalls) |-> onSegmentCalls[c].index]

IsNotified(i) == \E c \in 1..Len(onSegmentCalls) : onSegmentCalls[c].index = i

\* nothing more will run: the consumer left its loop and no render task is suspended
Quiescent ==
    /\ pc \in {"returned", "caught"} \/ (pc = "awaiting" /\ ~finishedSettled)
    /\ \A t \in 1..Len(tasks) : tasks[t].status # "running"

HasEvent(type) == \E k \in 1..Len(consumed) : consumed[k].type = type

----------------------------------------------------------------------------
(* Claims *)

\* C1: for render tasks a < b (tool segments in the order produced), b's sink
\* never has its terminal done while a's task has not yet issued its own done.
C1_SinkDoneInSegmentOrder ==
    \A a, b \in 1..Len(tasks) :
        (a < b /\ toolUis[tasks[b].res].closed) => tasks[a].status # "running"

\* C2: onSegment is invoked at most once per segment, in creation order, and
\* once consumption of a sequence containing finish has ended every segment
\* created has been notified exactly once.
C2_OnSegmentExactlyOnce ==
    /\ \A c, d \in 1..Len(onSegmentCalls) : c < d => Notified[c] < Notified[d]
    /\ (pc # "reading" /\ HasEvent("finish") /\ ui.status = "done")
          => Len(onSegmentCalls) = Len(segments)

\* C3: after a renderer failure the display sink ends sealed in the error
\* state, never sealed by done and never left unsealed.
C3_RendererFailureSealsError ==
    (Quiescent /\ \E t \in 1..Len(tasks) : tasks[t].status = "errored")
        => ui.status = "error"

\* C4: when ui.error(E) is issued for an error event, every segment created,
\* the open one included, has been sealed and passed to onSegment before.
C4_ErrorClosesOpenSegment ==
    (ui.status = "error" /\ ui.cause = "E") =>
        \A i \in 1..Len(segments) :
            /\ IsNotified(i)
            /\ segments[i].type = "text" => segments[i].stream.closed


\* C5: once an error event has been consumed it is the last event processed:
\* the consumer has issued nothing but ui.error(E) since reading it, the
\* display sink is in the error state with cause E, and from then on no event
\* is read, no segment is created, extended or notified, no renderer is
\* invoked and the display sink does not change.
C5_ErrorIsTerminal ==
    /\ [](\A k \in 1..Len(consumed) :
            consumed[k].type = "error" =>
              /\ k = Len(consumed)
              /\ pc = "caught"
              /\ ui.status = "error" /\ ui.cause = consumed[k].error
              /\ Len(log) >= 2
              /\ log[Len(log) - 1] = [op |-> "read", id |-> k, step |-> k]
              /\ log[Len(log)] = [op |-> "ui.error", id |-> 0, step |-> k])
    /\ [][HasEvent("error") =>
            /\ UNCHANGED <<pc, consumed, segments, onSegmentCalls, ui, initialRemoved,
                           finished, log>>
            /\ Len(tasks') = Len(tasks) /\ Len(toolUis') = Len(toolUis)]_vars

\* C5 witness: an error event was consumed after a segment had been created
C5_Witness ==
    /\ HasEvent("error")
    /\ Len(segments) >= 1
    /\ ui.status = "error"

IsTextDelta(e) == e.type = "text-delta"

\* the text-delta payloads among events p..q, in arrival order
DeltasBetween(p, q) ==
    LET ds == SelectSeq(SubSeq(consumed, p, q), IsTextDelta)
    IN [k \in 1..Len(ds) |-> ds[k].textDelta]

RECURSIVE Flatten(_)
Flatten(ds) == IF ds = <<>> THEN <<>> ELSE Head(ds) \o Flatten(Tail(ds))

\* the log position of the c-th invocation of onSegment
OnSegmentPos(c) ==
    CHOOSE p \in 1..Len(log) :
        /\ log[p].op = "onSegment"
        /\ Cardinality({q \in 1..p : log[q].op = "onSegment"}) = c

\* the log position at which segment i was created
PushPos(i) == CHOOSE p \in 1..Len(log) : log[p].op = "push" /\ log[p].id = i

\* C6: whenever a text segment is passed to onSegment, its text is the
\* concatenation, in arrival order, of the text-delta payloads received from
\* the event that opened it to the event that closed it, and its text sink
\* received exactly those deltas: the first as initial value, the rest appended.
C6_TextIsConcatenationOfDeltas ==
    \A c \in 1..Len(onSegmentCalls) :
        LET seg == onSegmentCalls[c].segment
            ds == DeltasBetween(StepOf(PushPos(onSegmentCalls[c].index)),
                                StepOf(OnSegmentPos(c)))
        IN seg.type = "text" =>
             /\ seg.text = Flatten(ds)
             /\ <<seg.stream.initial>> \o seg.stream.appended = ds

\* C6 witness: a text segment built from two different deltas was notified
C6_Witness ==
    \E c \in 1..Len(onSegmentCalls) :
        /\ onSegmentCalls[c].segment.type = "text"
        /\ onSegmentCalls[c].segment.text = <<"a", "b">>
        /\ onSegmentCalls[c].segment.stream.appended = << <<"b">> >>

\* C7: between two events no tool segment is open: every tool segment has been
\* passed to onSegment by the end of the step that created it, and at most one
\* segment is not yet notified.
C7_ToolSegmentClosedAtomically ==
    /\ \A i \in 1..Len(segments) : segments[i].type = "tool-call" => IsNotified(i)
    /\ Cardinality({i \in 1..Len(segments) : ~IsNotified(i)}) <= 1

\* C9: a segment that was passed to onSegment keeps the text it had then, and
\* no append is issued on a text sink after that sink's done.
C9_ClosedSegmentImmutable ==
    /\ \A c \in 1..Len(onSegmentCalls) :
          LET i == onSegmentCalls[c].index
          IN segments[i].type = "text" => segments[i].text = onSegmentCalls[c].segment.text
    /\ \A i \in 1..Len(segments) :
          \A p \in LogPositions("text.done", i), q \in LogPositions("text.append", i) :
              q < p


\* the log positions, within the processing of event k, of `op` on `id`
InStep(k, op, id) ==
    {p \in 1..Len(log) : log[p].step = k /\ log[p].op = op /\ log[p].id = id}

Before(P, Q) == \A p \in P, q \in Q : p < q

\* how many segments existed when event k was read
SegmentsBefore(k) ==
    Cardinality({p \in 1..Len(log) : log[p].op = "push" /\ log[p].step < k})

\* event k is a tool-call that arrived while a text segment was open: the
\* latest segment was a text segment whose sink was not yet done
ToolCallOnOpenText(k) ==
    LET n == SegmentsBefore(k)
    IN /\ consumed[k].type = "tool-call"
       /\ n >= 1
       /\ segments[n].type = "text"
       /\ \A p \in 1..Len(log) :
            (log[p].op = "text.done" /\ log[p].id = n) => log[p].step >= k

\* the toolUi created while event k was processed
ToolUiOf(k) ==
    log[CHOOSE p \in 1..Len(log) : log[p].op = "tool.create" /\ log[p].step = k].id

C10_PlaceholderReplacedOnce ==
    /\ Cardinality({p \in 1..Len(log) : log[p].op = "ui.update"}) <= 1
    /\ \A p \in 1..Len(log) :
          log[p].op = "ui.update" => \A q \in 1..(p - 1) : log[q].op # "ui.append"
    /\ \A p \in 1..Len(log) :
          log[p].op = "push" =>
              LET adds == {q \in 1..(p - 1) : /\ log[q].step = log[p].step
                                              /\ log[q].op \in {"ui.update", "ui.append"}}
              IN /\ adds # {}
                 /\ \A q \in adds :
                      log[q].op = IF log[p].id = 1 THEN "ui.update" ELSE "ui.append"
    /\ Len(segments) = 0 =>
          /\ \A p \in 1..Len(log) : log[p].op \notin {"ui.update", "ui.append"}
          /\ ui.value = <<InitialNode>>
          /\ pc \in {"awaiting", "returned"} => ui.status = "done"

\* C10 witness: three segments were displayed and the stream ended
C10_Witness ==
    /\ Len(segments) = 3
    /\ Len(ui.value) = 3
    /\ ui.status = "done"

\* log positions of the displays added to the display sink, of the creations
\* of a segment's sink, and of the invocations of onSegment
DisplayAdds == {p \in 1..Len(log) : log[p].op \in {"ui.update", "ui.append"}}

SinkCreations == {p \in 1..Len(log) : log[p].op \in {"text.create", "tool.create"}}

Closings == {p \in 1..Len(log) : log[p].op = "onSegment"}

\* C11 as stated: the display sink receives no update or append before the
\* first closing (onSegment notification) of a segment.
C11_NoDisplayBeforeFirstClosing ==
    LET adds == DisplayAdds
        closings == Closings
    IN \A p \in adds : \E q \in closings : q < p

\* C11 amended: the placeholder remains the content of the display sink until
\* the first segment is created: the display sink receives no update or append
\* before the first segment's sink is created, the placeholder is the sink's
\* content exactly as long as no segment's sink has been created, and the
\* first display is added before any segment is closed.
C11_PlaceholderUntilFirstSegmentCreated ==
    LET adds == DisplayAdds
        creations == SinkCreations
        closings == Closings
    IN /\ \A p \in adds : \E q \in creations : q < p
       /\ (creations = {}) <=> (ui.value = <<InitialNode>>)
       /\ creations # {} => /\ adds # {}
                            /\ InitialNode \notin {ui.value[i] : i \in 1..Len(ui.value)}
       /\ \A q \in closings : \E p \in adds : p < q

\* C11 witness: the first segment is open and not yet closed, and its display
\* has replaced the placeholder
C11_Witness ==
    /\ Len(segments) = 1
    /\ onSegmentCalls = <<>>
    /\ ui.value = <<[kind |-> "text", id |-> 1]>>
    /\ ui.status = "open"

\* event k is a tool-call whose segment has no renderer: its name is no key of
\* tools, or the tool has no generate function
NoRenderer(k) ==
    /\ consumed[k].type = "tool-call"
    /\ consumed[k].toolName \in DOMAIN Tools => Tools[consumed[k].toolName] = "undefined"

\* C12: a tool-call whose segment has no renderer has its per-segment sink
\* sealed by done with the "not found" value within the step that processes
\* it, that step raises no error on the display sink (other than the
\* observer's own failure), and consumption continues.
C12_NoRendererSealsNotFound ==
    \A k \in 1..Len(consumed) :
        NoRenderer(k) =>
            LET toolUi == ToolUiOf(k)
            IN /\ InStep(k, "tool.done", toolUi) # {}
               /\ toolUis[toolUi].closed
               /\ toolUis[toolUi].calls = <<[op |-> "done", value |-> NotFound]>>
               /\ InStep(k, "ui.error", 0) # {} => ui.cause = "ObserverError"
               /\ (k = Len(consumed) /\ ui.status = "open") => pc = "reading"

\* log positions of the calls that seal the display sink
Sealings == {p \in 1..Len(log) : log[p].op \in {"ui.done", "ui.error"}}

\* C13: once the stream has ended or failed the display sink has been sealed
\* exactly once: by done when reader.read() delivered done, by error for an
\* error event, an observer failure or a read failure; done and error are
\* never both issued nor either twice, and no update or append is issued
\* after the sealing call.
C13_DisplaySealedExactlyOnce ==
    LET sealings == Sealings
        adds == DisplayAdds
    IN /\ Cardinality(sealings) <= 1
       /\ \A p \in sealings, q \in adds : q < p
       /\ ui.closed <=> sealings # {}
       /\ pc # "reading" => /\ Cardinality(sealings) = 1
                            /\ ui.closed
       /\ pc \in {"awaiting", "returned"} =>
             /\ ui.status = "done"
             /\ \A p \in sealings : log[p].op = "ui.done"
       /\ pc = "caught" =>
             /\ ui.status = "error"
             /\ ui.cause # NoError
             /\ \A p \in sealings : log[p].op = "ui.error"
       /\ HasEvent("error") => ui.status = "error" /\ ui.cause = "E"

\* C13 witness: reader.read() failed after two segments had been displayed
C13_Witness ==
    /\ pc = "caught"
    /\ ui.status = "error"
    /\ ui.cause = "ReadError"
    /\ Len(ui.value) = 2

\* C14: when an invocation of onSegment throws, it is the last thing the
\* consumer does for that event apart from ui.error: the event being processed
\* is the last one read, the segment being closed is the last one created and
\* the last one notified, the consumer has left its loop, and the display sink
\* is sealed in the error state with the thrown value.
C14_ObserverFailureStopsConsumption ==
    \A c \in 1..Len(onSegmentCalls) :
        onSegmentCalls[c].threw =>
            /\ c = Len(onSegmentCalls)
            /\ onSegmentCalls[c].index = Len(segments)
            /\ pc = "caught"
            /\ ui.status = "error" /\ ui.cause = "ObserverError"
            /\ Len(log) >= 2
            /\ log[Len(log) - 1] = [op |-> "onSegment", id |-> Len(segments),
                                    step |-> Len(consumed)]
            /\ log[Len(log)] = [op |-> "ui.error", id |-> 0, step |-> Len(consumed)]
            /\ consumed[Len(consumed)].type \in {"text-delta", "tool-call", "finish"}

\* C14 witness: the observer threw while a tool-call was closing the open text
\* segment, after the tool's renderer had been invoked
C14_Witness ==
    /\ Len(onSegmentCalls) = 1
    /\ onSegmentCalls[1].threw
    /\ consumed[Len(consumed)].type = "tool-call"
    /\ Len(tasks) = 1
    /\ Len(segments) = 1

\* The reference partition of an event sequence.  A segment starts at every
\* tool-call and at every text-delta that has no text-delta before it since
\* the latest tool-call (or since the beginning); no other event starts one.
StartsSegment(evs, k) ==
    \/ evs[k].type = "tool-call"
    \/ /\ evs[k].type = "text-delta"
       /\ \A j \in 1..(k - 1) :
            evs[j].type = "text-delta" => \E t \in (j + 1)..(k - 1) : evs[t].type = "tool-call"

\* the text run that starts at k: the deltas from k up to the next tool-call
RunText(evs, k) ==
    LET stops == {t \in (k + 1)..Len(evs) : evs[t].type = "tool-call"}
        last == IF stops = {} THEN Len(evs)
                ELSE (CHOOSE t \in stops : \A u \in stops : t <= u) - 1
        ds == SelectSeq(SubSeq(evs, k, last), IsTextDelta)
    IN Flatten([i \in 1..Len(ds) |-> ds[i].textDelta])

ReferenceSegment(evs, k) ==
    IF evs[k].type = "tool-call"
    THEN [type |-> "tool-call",
          toolCall |-> [toolCallId |-> evs[k].toolCallId, toolName |-> evs[k].toolName,
                        args |-> evs[k].args]]
    ELSE [type |-> "text", text |-> RunText(evs, k)]

RECURSIVE ReferencePartitionFrom(_, _)
ReferencePartitionFrom(evs, k) ==
    IF k > Len(evs) THEN <<>>
    ELSE (IF StartsSegment(evs, k) THEN <<ReferenceSegment(evs, k)>> ELSE <<>>)
         \o ReferencePartitionFrom(evs, k + 1)

ReferencePartition(evs) == ReferencePartitionFrom(evs, 1)

\* the segments produced, without their sinks
Produced ==
    [i \in 1..Len(segments) |->
        IF segments[i].type = "text"
        THEN [type |-> "text", text |-> segments[i].text]
        ELSE [type |-> "tool-call", toolCall |-> segments[i].toolCall]]

\* C15: as long as the observer has not thrown, the segments produced are the
\* reference partition of the events read: one text segment per maximal run of
\* text-deltas not separated by a tool-call, one tool-call segment per
\* tool-call with its toolCallId, toolName and args, in event order;
\* tool-call-delta (like finish and error) starts, changes and splits nothing.
C15_SegmentsAreReferencePartition ==
    (\A c \in 1..Len(onSegmentCalls) : ~onSegmentCalls[c].threw)
        => Produced = ReferencePartition(consumed)

\* the display a segment of the given type is shown by
DisplayKind(type) == IF type = "text" THEN "text" ELSE "tool"

\* C16: as long as the observer has not thrown, the displays added to the
\* display sink are one per segment created, in creation order (the i-th
\* display is the i-th segment's), every display was added in the step that
\* created its segment, and segments are closed and notified in that order.
C16_DisplaysInSegmentOrder ==
    (\A c \in 1..Len(onSegmentCalls) : ~onSegmentCalls[c].threw) =>
        LET adds == DisplayAdds
            pushes == {p \in 1..Len(log) : log[p].op = "push"}
        IN /\ Cardinality(adds) = Len(segments)
           /\ Len(segments) > 0 =>
                /\ Len(ui.value) = Len(segments)
                /\ \A i \in 1..Len(segments) :
                     ui.value[i].kind = DisplayKind(segments[i].type)
           /\ \A p \in adds : \E q \in pushes :
                /\ p < q
                /\ log[q].step = log[p].step
                /\ Cardinality({r \in adds : r <= p}) = log[q].id
           /\ \A c, d \in 1..Len(onSegmentCalls) : c < d => Notified[c] <= Notified[d]

\* C18: the renderer of every tool-call that has one is invoked while its own
\* tool-call event is processed, whatever the state of the render tasks
\* started before it: the k-th such event has started the k-th task, on the
\* sink created for that event, in its own step.
C18_RenderersPipelined ==
    \A k \in 1..Len(consumed) :
        (consumed[k].type = "tool-call" /\ ~NoRenderer(k)) =>
            LET toolUi == ToolUiOf(k)
                earlier == {j \in 1..(k - 1) :
                              consumed[j].type = "tool-call" /\ ~NoRenderer(j)}
                t == Cardinality(earlier) + 1
            IN /\ InStep(k, "render", toolUi) # {}
               /\ t <= Len(tasks)
               /\ tasks[t].res = toolUi
               /\ tasks[t].kind = Tools[consumed[k].toolName]

\* C18 witness: for [tool-call(A), tool-call(B)] with a slow A, both renderers
\* are in progress and B has issued an intermediate update while A has issued
\* nothing yet
C18_Witness ==
    /\ Len(tasks) = 2
    /\ tasks[1].status = "running"
    /\ tasks[2].status = "running"
    /\ toolUis[tasks[1].res].calls = <<>>
    /\ toolUis[tasks[2].res].calls = <<[op |-> "update", value |-> Yielded(1)]>>

\* the update calls for the first n values a renderer yields, in yield order
Updates(n) == [i \in 1..n |-> [op |-> "update", value |-> Yielded(i)]]

\* C19: the sink of a render task has received one update per value yielded
\* so far, in yield order; once the task has completed without failing these
\* are followed by exactly one done carrying the returned value and nothing
\* after it; a plain value or a resolved promise gives a single done and no
\* update; and the completion signal is resolved only when that done has
\* been issued.
C19_UpdatesThenOneDone ==
    \A t \in 1..Len(tasks) :
        LET calls == toolUis[tasks[t].res].calls
            n == tasks[t].yielded
        IN /\ tasks[t].status = "running" =>
                /\ calls = Updates(n)
                /\ ~toolUis[tasks[t].res].closed
           /\ tasks[t].status = "done" =>
                /\ calls = Updates(n) \o <<[op |-> "done", value |-> Returned]>>
                /\ toolUis[tasks[t].res].closed
           /\ (tasks[t].status = "done" /\ tasks[t].kind \in {"plain", "promise"}) =>
                calls = <<[op |-> "done", value |-> Returned]>>
           /\ tasks[t].resolved =>
                /\ tasks[t].status = "done"
                /\ Len(calls) >= 1
                /\ calls[Len(calls)].op = "done"

\* C19 witness: an async generator renderer yielded two values and returned
C19_Witness ==
    \E t \in 1..Len(tasks) :
        /\ tasks[t].kind = "asyncIterator"
        /\ tasks[t].resolved
        /\ Len(toolUis[tasks[t].res].calls) = 3

\* the value of `finished` after the m-th handleRender (lines 287-291) has
\* settled: every resolvable chained into it so far has been resolved
ChainSettled(m) == \A i \in 1..m : tasks[finished[i]].resolved

\* C20: once the renderer of a task has failed, that task's completion signal
\* is not resolved and its sink is not sealed, the chained completion signal
\* of that task and of every later task is unsettled, the consumer has not
\* returned from its final wait, and none of this changes afterwards; nothing
\* cancels the later tasks.
C20_FailedTaskBlocksChain ==
    /\ [](\A t \in 1..Len(tasks) :
            tasks[t].status = "errored" =>
              /\ ~tasks[t].resolved
              /\ ~toolUis[tasks[t].res].closed
              /\ \A i \in 1..Len(toolUis[tasks[t].res].calls) :
                   toolUis[tasks[t].res].calls[i].op = "update"
              /\ \A m \in t..Len(finished) : ~ChainSettled(m)
              /\ ~finishedSettled
              /\ pc # "returned")
    /\ [][\A t \in 1..Len(tasks) :
            tasks[t].status = "errored" =>
              /\ tasks'[t] = tasks[t]
              /\ toolUis'[tasks[t].res] = toolUis[tasks[t].res]
              /\ finished'[t] = finished[t]]_vars

\* C20 witness: the first renderer failed, the later task ran to its own done,
\* and the consumer is in its final wait
C20_Witness ==
    /\ Len(tasks) = 2
    /\ tasks[1].status = "errored"
    /\ tasks[2].status = "done"
    /\ toolUis[tasks[2].res].closed
    /\ pc = "awaiting"

\* every segment created has been passed to onSegment and every text sink sealed
AllSegmentsClosed ==
    \A i \in 1..Len(segments) :
        /\ IsNotified(i)
        /\ segments[i].type = "text" => segments[i].stream.closed

\* a finish event follows every text-delta and tool-call event read
FinishFollowsLastSegmentEvent ==
    \A k \in 1..Len(consumed) :
        consumed[k].type \in {"text-delta", "tool-call"} =>
            \E f \in (k + 1)..Len(consumed) : consumed[f].type = "finish"

\* C22 as stated: whenever the display sink is sealed by done, every segment
\* created has been closed and passed to onSegment and every text sink has
\* been sealed, whether or not a finish event was read.
C22_DoneImpliesAllClosed ==
    ui.status = "done" => AllSegmentsClosed

\* C22 amended: whenever the display sink is sealed by done and a finish event
\* followed every text-delta and tool-call event, every segment created has
\* been closed and passed to onSegment and every text sink has been sealed.
C22_DoneAfterFinishImpliesAllClosed ==
    (ui.status = "done" /\ FinishFollowsLastSegmentEvent) => AllSegmentsClosed

\* C22 witness: a text segment and a tool segment, then finish, then the end
\* of the stream
C22_Witness ==
    /\ ui.status = "done"
    /\ Len(segments) = 2
    /\ segments[1].type = "text"
    /\ segments[2].type = "tool-call"
    /\ consumed[Len(consumed)].type = "finish"

\* the events read end with finish and the consumer has left its read loop
EndedWithFinish ==
    /\ pc # "reading"
    /\ consumed # <<>>
    /\ consumed[Len(consumed)].type = "finish"

\* the consumer task has completed normally
Completed ==
    /\ pc = "returned"
    /\ ui.status = "done"
    /\ \A t \in 1..Len(tasks) :
         /\ tasks[t].resolved
         /\ toolUis[tasks[t].res].closed

\* C21: in a run in which nothing fails, under fair scheduling, once the
\* events read end with finish and the consumer has left its read loop, the
\* consumer task eventually completes: the display sink is sealed by done and
\* every render task has resolved its completion signal and sealed its sink;
\* and the wait on the completion chain has returned only if all render tasks
\* have resolved.
C21_FinishLeadsToCompletion ==
    /\ [](pc = "returned" => Completed)
    /\ EndedWithFinish ~> Completed

====
